---- MODULE Spec2Model ----
(***************************************************************************)
(* The practice-session state machine of Linguist-AI: the history-caching  *)
(* PracticeSession component (src/unnamed/part_000, lines 161-1048) with   *)
(* the services it awaits (src/services/geminiService.ts).                 *)
(*                                                                         *)
(* One action is one browser task: a click handler, a promise             *)
(* continuation or a platform event handler, run to completion together   *)
(* with the render and the effects it triggers.  React state and refs are  *)
(* the variables; the platform objects (the recognition engine, the audio  *)
(* buffer sources, the speech-synthesis queue) are modelled by what the    *)
(* code can observe of them: whether they are active and which of their    *)
(* events are still to be delivered.                                       *)
(***************************************************************************)
EXTENDS Integers, Sequences, FiniteSets, TLC

\* ---------------------------------------------------------------- bounds
NumLevels == 3          \* sentences.length
MaxRecordings == 2      \* recordings started in one behaviour
MaxRestarts == 1        \* engine-initiated ends that carry text, per recording
MaxPlays == 3           \* play requests issued in one behaviour
MaxCaptureRecordings == 3   \* recordings started, when playback is left out
MaxCaptureRestarts == 1     \* text-carrying restarts, when playback is left out
MaxSegmentRecordings == 2   \* recordings started, when segments are followed
MaxSegmentRestarts == 2     \* text-carrying restarts, when segments are followed
MaxLiveRecordings == 2      \* recordings started, when playback is followed to its end
MaxLiveRestarts == 1        \* text-carrying restarts, when playback is followed to its end
MaxLivePlays == 2           \* play requests issued, when playback is followed to its end
MaxImageCalls == 2          \* generateSentenceImage calls per level in one session
MaxAppRecordings == 2       \* recordings started per session, when App is included
MaxAppRestarts == 0         \* text-carrying restarts, when App is included
MaxAppPlays == 1            \* play requests per session, when App is included
NumWords == 2               \* words of a sentence that can be clicked
MaxResetRecordings == 2     \* recordings started, when the word popover is included
MaxResetPlays == 1          \* play requests, when the word popover is included
MaxCacheRecordings == 2     \* recordings started, when words are played
MaxCachePlays == 3          \* play requests, when words are played
MaxTeardownRecordings == 2  \* recordings started, when teardown is followed up
MaxTeardownPlays == 1       \* play requests, when teardown is followed up
MaxBasicRecordings == 3     \* recordings started in the basic session
MaxCompleteCalls == 2       \* critique calls, when handleRecordingComplete is called directly
MaxBlankCompletions == 2    \* blank transcripts handed to handleRecordingComplete

Levels == 0 .. (NumLevels - 1)

\* The sentences prop: level i carries the text i + 1 (texts are distinct).
sentences == [i \in Levels |-> i + 1]

\* ------------------------------------------------------------ transcripts
\* A transcript is a sequence of characters.  Sp is the blank; every other
\* character is a word spoken in recording rec, segment seg.
Sp == 0
Word(rec, seg) == rec * 10 + seg + 1
RecordingOf(c) == c \div 10

RECURSIVE TrimLeft(_)
TrimLeft(s) == IF s # <<>> /\ Head(s) = Sp THEN TrimLeft(Tail(s)) ELSE s

RECURSIVE TrimRight(_)
TrimRight(s) ==
    IF s # <<>> /\ s[Len(s)] = Sp THEN TrimRight(SubSeq(s, 1, Len(s) - 1)) ELSE s

\* String.prototype.trim
Trim(s) == TrimRight(TrimLeft(s))

\* -------------------------------------------------------------- results
\* useState<EvaluationResult | null>(null): NoResult is null.
NoResult == [kind |-> "none", target |-> 0, transcript |-> <<>>, id |-> 0]

VARIABLES
    step,               \* App's step: "PRACTICE" while the session is mounted
    currentIndex,
    unlockedIndex,
    currentIndexRef,
    isRecording,
    isPlaying,
    isAudioLoading,
    isEvaluating,
    evaluation,
    showAnalysis,
    history,
    pendingEvals,       \* evaluatePronunciation calls awaiting their result
    critiqueCalls,      \* number of evaluatePronunciation calls made so far
    hasRecognition,     \* the platform offers SpeechRecognition
    engine,             \* recognitionRef.current: "idle", "listening", "ending"
    oldEnds,            \* end events still to come from aborted engine objects
    transcriptRef,
    fullTranscriptRef,
    userStoppedRef,
    recordings,         \* recordings started so far
    restarts,           \* text-carrying auto-restarts of this recording
    abandoned,          \* recordings a level change cut off while listening
    stopRequestedBy,    \* who set userStoppedRef last: "none", "user", "denial", "switch"
    permissionDenied,   \* onerror has reported a permission denial
    audioCacheRef,      \* texts with a decoded buffer
    pendingPlays,       \* generateSpeech calls awaiting their result, per text
    activeSourceRef,    \* id of the referenced buffer source, 0 for null
    sounding,           \* buffer sources producing output
    endedPending,       \* stopped sources whose onended is still to come
    ttsSpeaking,        \* an utterance is speaking on window.speechSynthesis
    ttsEvents,          \* end/error events still to come from cancelled utterances
    plays,              \* play requests issued so far
    isGenerating,       \* App's isGenerating
    generating,         \* a curriculum generation call awaits its result
    sentenceCount,      \* App's sentences.length
    lastGeneration,     \* how the latest generateCurriculum call settled
    enableImages,       \* the enableImages prop
    sentenceImages,     \* levels with a cached image
    loadingImage,
    imageFetches,       \* generateSentenceImage calls awaiting their result
    imageCalls,         \* generateSentenceImage calls made so far, per level
    closureEnds,        \* basic session: end events still to come from aborted
                        \* engines, per level their handlers were created on
    blankCompletions,   \* handleRecordingComplete calls made with a blank transcript
    activeWordIndex,    \* the word whose popover is open, or NoWord
    showText            \* the sentence text is visible

navVars == <<step, currentIndex, unlockedIndex, currentIndexRef>>
evalVars == <<isEvaluating, evaluation, showAnalysis, history, pendingEvals, critiqueCalls>>
captureVars == <<hasRecognition, isRecording, engine, oldEnds, transcriptRef,
                 fullTranscriptRef, userStoppedRef, recordings, restarts, abandoned,
                 stopRequestedBy, permissionDenied>>
playVars == <<isPlaying, isAudioLoading, audioCacheRef, pendingPlays, activeSourceRef,
              sounding, endedPending, ttsSpeaking, ttsEvents, plays>>
appVars == <<isGenerating, generating, sentenceCount, lastGeneration>>
imageVars == <<enableImages, sentenceImages, loadingImage, imageFetches, imageCalls>>
sideVars == <<appVars, imageVars, closureEnds, blankCompletions>>
popoverVars == <<activeWordIndex, showText>>
vars == <<navVars, evalVars, captureVars, playVars, sideVars, popoverVars>>

\* a word that occurs in the sentence of every level
SharedWord == NumLevels + 1

\* what playAudio is called with: a level's sentence, or a word of it
Texts == {sentences[i] : i \in Levels} \cup {SharedWord}

\* activeWordIndex is null: no popover is open
NoWord == -1

WordIndexes == 0 .. NumWords - 1

\* the two fetches of the image effect: for the level shown, for the next one
ImageFetchKinds == {"current", "preload"}

Init ==
    /\ step = "PRACTICE"
    /\ currentIndex = 0
    /\ unlockedIndex = 0
    /\ currentIndexRef = 0
    /\ isRecording = FALSE
    /\ isPlaying = FALSE
    /\ isAudioLoading = FALSE
    /\ isEvaluating = FALSE
    /\ evaluation = NoResult
    /\ showAnalysis = FALSE
    /\ history = [i \in Levels |-> NoResult]
    /\ pendingEvals = {}
    /\ critiqueCalls = 0
    /\ hasRecognition \in BOOLEAN
    /\ engine = "idle"
    /\ oldEnds = 0
    /\ transcriptRef = <<>>
    /\ fullTranscriptRef = <<>>
    /\ userStoppedRef = FALSE
    /\ recordings = 0
    /\ restarts = 0
    /\ abandoned = {}
    /\ stopRequestedBy = "none"
    /\ permissionDenied = FALSE
    /\ audioCacheRef = {}
    /\ pendingPlays = [t \in Texts |-> 0]
    /\ activeSourceRef = 0
    /\ sounding = {}
    /\ endedPending = {}
    /\ ttsSpeaking = FALSE
    /\ ttsEvents = 0
    /\ plays = 0
    /\ isGenerating = FALSE
    /\ generating = FALSE
    /\ lastGeneration = "none"
    /\ sentenceCount = NumLevels
    /\ enableImages = FALSE
    /\ sentenceImages = {}
    /\ loadingImage = FALSE
    /\ imageFetches = [f \in Levels \X ImageFetchKinds |-> 0]
    /\ imageCalls = [i \in Levels |-> 0]
    /\ closureEnds = [i \in Levels |-> 0]
    /\ blankCompletions = 0
    /\ activeWordIndex = NoWord
    /\ showText = TRUE

\* ------------------------------------------------------- platform objects
\* window.speechSynthesis.cancel(): a speaking utterance is cut off and its
\* end/error event is delivered later.
SynthCancelEvents == IF ttsSpeaking THEN ttsEvents + 1 ELSE ttsEvents

\* AudioBufferSourceNode.stop() on source a: output ceases at once, onended is
\* delivered later; stopping a source that already ended does nothing.
SoundingAfterStop(a) == sounding \ {a}
EndedAfterStop(a) == IF a \in sounding THEN endedPending \cup {a} ELSE endedPending

\* SpeechRecognition.abort()/stop(): an active engine will deliver one end event.
EngineActive == engine \in {"listening", "ending"}

\* the reset effect without its buffer reset
KeptBuffer(buf) == buf

\* transcriptRef.current = ''; fullTranscriptRef.current = '' in the reset effect
ClearedBuffer(buf) == <<>>

\* the session is mounted: App renders it on the PRACTICE step when the
\* level list is not empty
Mounted == step = "PRACTICE" /\ sentenceCount > 0

\* the state the audio stop of the reset effect works on
AudioState ==
    [ttsSpeaking |-> ttsSpeaking, ttsEvents |-> ttsEvents, sounding |-> sounding,
     endedPending |-> endedPending, activeSourceRef |-> activeSourceRef]

\* The reset effect's audio stop: speechSynthesis.cancel(), then stop() on
\* the referenced buffer source and activeSourceRef.current = null.
AudioStop(a) ==
    [ttsSpeaking |-> FALSE,
     ttsEvents |-> IF a.ttsSpeaking THEN a.ttsEvents + 1 ELSE a.ttsEvents,
     sounding |-> IF a.activeSourceRef # 0 THEN a.sounding \ {a.activeSourceRef}
                  ELSE a.sounding,
     endedPending |-> IF a.activeSourceRef # 0 /\ a.activeSourceRef \in a.sounding
                      THEN a.endedPending \cup {a.activeSourceRef}
                      ELSE a.endedPending,
     activeSourceRef |-> 0]

\* handleClickOutside: a click that reaches the document closes the popover
ClickReachesDocument == activeWordIndex' = NoWord /\ UNCHANGED showText

\* a timer, a promise continuation or a platform event: no click
PopoverKept == UNCHANGED popoverVars

\* a reset that always starts the level afresh
RestoredEvaluationNone(idx) == NoResult

\* the reset effect's history lookup: savedResult = history[currentIndex]
RestoredEvaluation(idx) == history[idx]

\* The image effect for level idx: fetch the level's image unless it is in
\* sentenceImages, and the next level's likewise.
ImageEffect(idx) ==
    IF ~enableImages
    THEN UNCHANGED imageVars
    ELSE LET fetchCurrent == idx \notin sentenceImages
             fetchNext == idx + 1 < NumLevels /\ (idx + 1) \notin sentenceImages
             fetched == (IF fetchCurrent THEN {<<idx, "current">>} ELSE {})
                            \cup (IF fetchNext THEN {<<idx + 1, "preload">>} ELSE {})
         IN /\ imageFetches' = [f \in Levels \X ImageFetchKinds |->
                                   IF f \in fetched THEN imageFetches[f] + 1
                                   ELSE imageFetches[f]]
            /\ imageCalls' = [i \in Levels |->
                                 IF \E k \in ImageFetchKinds : <<i, k>> \in fetched
                                 THEN imageCalls[i] + 1 ELSE imageCalls[i]]
            /\ \A i \in Levels : imageCalls'[i] <= MaxImageCalls
            /\ loadingImage' = IF fetchCurrent THEN TRUE ELSE loadingImage
            /\ UNCHANGED <<enableImages, sentenceImages>>

\* --------------------------------------------------------- level changes
\* The effects keyed on [currentIndex], in declaration order, run after the
\* render that follows setCurrentIndex(idx): the recognition effect's cleanup,
\* the currentIndexRef sync, the reset effect, the recognition effect.
RunLevelEffects(idx) ==
    /\ activeWordIndex' = NoWord
    /\ currentIndex' = idx
    /\ currentIndexRef' = idx
    \* image effect
    /\ ImageEffect(idx)
    \* reset effect: stop audio
    /\ ttsSpeaking' = AudioStop(AudioState).ttsSpeaking
    /\ ttsEvents' = AudioStop(AudioState).ttsEvents
    /\ sounding' = AudioStop(AudioState).sounding
    /\ endedPending' = AudioStop(AudioState).endedPending
    /\ activeSourceRef' = AudioStop(AudioState).activeSourceRef
    \* cleanup + reset effect: abort the engine; the recognition effect then
    \* installs a fresh engine object
    /\ userStoppedRef' = IF hasRecognition THEN TRUE ELSE userStoppedRef
    /\ stopRequestedBy' = IF hasRecognition THEN "switch" ELSE stopRequestedBy
    /\ oldEnds' = IF EngineActive THEN oldEnds + 1 ELSE oldEnds
    /\ engine' = "idle"
    /\ abandoned' = IF engine = "listening" THEN abandoned \cup {recordings} ELSE abandoned
    /\ transcriptRef' = ClearedBuffer(transcriptRef)
    /\ fullTranscriptRef' = ClearedBuffer(fullTranscriptRef)
    /\ isPlaying' = FALSE
    /\ isRecording' = FALSE
    /\ isEvaluating' = FALSE
    /\ isAudioLoading' = FALSE
    \* history lookup
    /\ evaluation' = RestoredEvaluation(idx)
    /\ showAnalysis' = (RestoredEvaluation(idx) # NoResult)
    /\ UNCHANGED <<history, pendingEvals, critiqueCalls, hasRecognition, recordings,
                   restarts, permissionDenied, audioCacheRef, pendingPlays, plays, showText>>

\* the guard off by one: the first locked level can be entered
JumpAllowedOffByOne(index) == index <= unlockedIndex + 1

\* handleJumpToLevel's guard
JumpAllowed(index) == index <= unlockedIndex

\* a jump that moves the frontier to its target
UnlockedAfterJumpFollowing(index) == index

\* handleJumpToLevel makes no setUnlockedIndex call
UnlockedAfterJump(index) == unlockedIndex

HandleJumpToLevel(index) ==
    /\ Mounted
    /\ IF JumpAllowed(index)
       THEN /\ IF index # currentIndex
               THEN RunLevelEffects(index)
               ELSE UNCHANGED <<currentIndex, currentIndexRef, evalVars, captureVars, playVars,
                                imageVars>>
            /\ unlockedIndex' = UnlockedAfterJump(index)
            /\ ClickReachesDocument
            /\ UNCHANGED <<step, appVars, closureEnds, blankCompletions>>
       ELSE UNCHANGED vars

\* The unmount that follows onComplete(): AudioContext.close() silences the
\* buffer sources, the recognition effect's cleanup aborts the engine.
Teardown ==
    /\ sounding' = {}
    /\ userStoppedRef' = IF hasRecognition THEN TRUE ELSE userStoppedRef
    /\ stopRequestedBy' = IF hasRecognition THEN "switch" ELSE stopRequestedBy
    /\ oldEnds' = IF EngineActive THEN oldEnds + 1 ELSE oldEnds
    /\ engine' = "idle"
    /\ UNCHANGED <<currentIndex, currentIndexRef, evalVars, hasRecognition, isRecording,
                   transcriptRef, fullTranscriptRef, recordings, restarts, abandoned,
                   permissionDenied,
                   isPlaying, isAudioLoading, audioCacheRef, pendingPlays,
                   activeSourceRef, endedPending, ttsSpeaking, ttsEvents, plays>>

\* handleNext without its comparison: the frontier follows the level
UnlockedAfterNextAlways(nextIdx) == nextIdx

\* handleNext: if (nextIdx > unlockedIndex) setUnlockedIndex(nextIdx)
UnlockedAfterNext(nextIdx) == IF nextIdx > unlockedIndex THEN nextIdx ELSE unlockedIndex

\* The Next button is rendered only while an evaluation is displayed.
HandleNext ==
    /\ Mounted
    /\ ClickReachesDocument
    /\ evaluation # NoResult
    /\ LET nextIdx == currentIndex + 1 IN
       IF nextIdx < NumLevels
       THEN /\ unlockedIndex' = UnlockedAfterNext(nextIdx)
            /\ RunLevelEffects(nextIdx)
            /\ UNCHANGED <<step, appVars, closureEnds, blankCompletions>>
       ELSE /\ step' = "COMPLETED"
            /\ Teardown
            /\ UNCHANGED <<unlockedIndex, sideVars>>

\* ------------------------------------------------------------ evaluation
\* evaluatePronunciation (geminiService.ts 297-354) resolves with a result in
\* every case: "ok" from the model's answer, "fallback" from its catch block
\* (network or parse error).  It rejects only without an API key, which no
\* mounted session has (the curriculum call would have failed first).
EvalOutcomes == {"ok", "fallback"}

EvaluationResultOf(p, outcome) ==
    [kind |-> outcome, target |-> p.target, transcript |-> p.transcript, id |-> p.id]

\* the guard without trim()
CallsCritiqueUntrimmed(transcript) == transcript # <<>>

\* handleRecordingComplete up to its await, as the values it leaves behind.
CallsCritique(transcript) == Trim(transcript) # <<>>

PendingAfterComplete(transcript) ==
    IF CallsCritique(transcript)
    THEN pendingEvals \cup {[id |-> critiqueCalls + 1,
                             recordingIndex |-> currentIndexRef,
                             target |-> sentences[currentIndexRef],
                             transcript |-> transcript]}
    ELSE pendingEvals

\* Transcripts a caller can hand to handleRecordingComplete.
CompleteTranscripts == {<<>>, <<Sp>>, <<Sp, Sp>>, <<Word(0, 0)>>, <<Sp, Word(0, 0), Sp>>}

\* handleRecordingComplete called with a transcript, up to its await
HandleRecordingComplete(transcript) ==
    /\ Mounted
    /\ PopoverKept
    /\ IF CallsCritique(transcript)
       THEN /\ critiqueCalls < MaxCompleteCalls
            /\ critiqueCalls' = critiqueCalls + 1
            /\ isEvaluating' = TRUE
            /\ UNCHANGED blankCompletions
       ELSE /\ Trim(transcript) = <<>>
            /\ blankCompletions < MaxBlankCompletions
            /\ blankCompletions' = blankCompletions + 1
            /\ UNCHANGED <<critiqueCalls, isEvaluating>>
    /\ pendingEvals' = PendingAfterComplete(transcript)
    /\ UNCHANGED <<navVars, appVars, imageVars, closureEnds, evaluation, showAnalysis, history,
                   captureVars, playVars>>

\* the guard left out: every result is applied
IsStaleNever(recordingIndex) == FALSE

\* the guard inverted
IsStaleInverted(recordingIndex) == currentIndexRef = recordingIndex

\* the staleness guard of handleRecordingComplete
IsStale(recordingIndex) == currentIndexRef # recordingIndex

\* handleRecordingComplete after its await
EvaluationResolves(p, outcome) ==
    /\ Mounted
    /\ PopoverKept
    /\ p \in pendingEvals
    /\ pendingEvals' = pendingEvals \ {p}
    /\ IF IsStale(p.recordingIndex)
       THEN UNCHANGED <<evaluation, history, showAnalysis, isEvaluating>>
       ELSE /\ evaluation' = EvaluationResultOf(p, outcome)
            /\ history' = [history EXCEPT ![p.recordingIndex] = EvaluationResultOf(p, outcome)]
            /\ showAnalysis' = TRUE
            /\ isEvaluating' = FALSE
    /\ UNCHANGED <<navVars, sideVars, critiqueCalls, captureVars, playVars>>

\* the glasses button: setShowAnalysis(!showAnalysis)
ToggleAnalysis ==
    /\ Mounted
    /\ ClickReachesDocument
    /\ showAnalysis' = ~showAnalysis
    /\ UNCHANGED <<navVars, sideVars, isEvaluating, evaluation, history, pendingEvals, critiqueCalls,
                   captureVars, playVars>>

\* --------------------------------------------------------------- capture
\* What onresult can store while recording rec is in its segment seg.
Utterances(rec, seg) == {<<Word(rec, seg)>>}

OnResult(u) ==
    /\ Mounted
    /\ PopoverKept
    /\ engine = "listening"
    /\ transcriptRef' = u
    /\ UNCHANGED <<navVars, sideVars, evalVars, playVars, hasRecognition, isRecording, engine, oldEnds,
                   fullTranscriptRef, userStoppedRef, recordings, restarts, abandoned,
                   stopRequestedBy, permissionDenied>>

\* onerror: only a permission denial changes state.  The engine then ends.
IsPermissionDenial(e) == e \in {"not-allowed", "service-not-allowed"}

OnErrorWithin(e, maxRestarts) ==
    /\ Mounted
    /\ PopoverKept
    /\ engine = "listening"
    /\ transcriptRef # <<>> => restarts < maxRestarts
    /\ engine' = "ending"
    /\ IF IsPermissionDenial(e)
       THEN /\ userStoppedRef' = TRUE
            /\ isRecording' = FALSE
            /\ stopRequestedBy' = "denial"
            /\ permissionDenied' = TRUE
       ELSE UNCHANGED <<userStoppedRef, isRecording, stopRequestedBy, permissionDenied>>
    /\ UNCHANGED <<navVars, sideVars, evalVars, playVars, hasRecognition, oldEnds, transcriptRef,
                   fullTranscriptRef, recordings, restarts, abandoned>>

OnError(e) == OnErrorWithin(e, MaxRestarts)

\* onend, case 1, without its trim
TotalTextUntrimmed == fullTranscriptRef \o <<Sp>> \o transcriptRef

\* onend, case 1: the text handed to handleRecordingComplete
TotalText == Trim(fullTranscriptRef \o <<Sp>> \o transcriptRef)

\* the accumulation with the earlier segments dropped
AccumulatedAfterEndOverwriting == <<Sp>> \o transcriptRef

\* onend, case 2: fullTranscriptRef.current += ' ' + transcriptRef.current
AccumulatedAfterEnd == fullTranscriptRef \o <<Sp>> \o transcriptRef

\* onend.  eng is the state of recognitionRef.current once the ending engine
\* has ended: "idle" when that engine is the current one, unchanged when the
\* event comes from an engine object a level change has replaced.
OnEndHandler(eng) ==
    IF userStoppedRef
    THEN /\ isRecording' = FALSE
         /\ pendingEvals' = IF Len(TotalText) > 0 THEN PendingAfterComplete(TotalText)
                            ELSE pendingEvals
         /\ critiqueCalls' = IF Len(TotalText) > 0 /\ CallsCritique(TotalText)
                             THEN critiqueCalls + 1 ELSE critiqueCalls
         /\ isEvaluating' = IF Len(TotalText) > 0 /\ CallsCritique(TotalText)
                            THEN TRUE ELSE isEvaluating
         /\ fullTranscriptRef' = <<>>
         /\ transcriptRef' = <<>>
         /\ engine' = eng
         /\ UNCHANGED restarts
    ELSE /\ IF transcriptRef # <<>>
            THEN /\ fullTranscriptRef' = AccumulatedAfterEnd
                 /\ transcriptRef' = <<>>
                 \* a new engine session starts a new segment; when start()
                 \* throws, the running session goes on with the same text
                 /\ restarts' = IF eng = "idle" THEN restarts + 1 ELSE restarts
            ELSE UNCHANGED <<fullTranscriptRef, transcriptRef, restarts>>
         \* recognitionRef.current.start() throws when that engine is active
         /\ IF eng = "idle"
            THEN engine' = "listening" /\ UNCHANGED isRecording
            ELSE engine' = eng /\ isRecording' = FALSE
         /\ UNCHANGED <<pendingEvals, critiqueCalls, isEvaluating>>

\* The engine stops by itself (silence timeout, network).
EngineEndsItselfWithin(maxRestarts) ==
    /\ Mounted
    /\ PopoverKept
    /\ engine = "listening"
    /\ transcriptRef # <<>> => restarts < maxRestarts
    /\ OnEndHandler("idle")
    /\ UNCHANGED <<navVars, sideVars, evaluation, showAnalysis, history, playVars, hasRecognition,
                   oldEnds, userStoppedRef, recordings, abandoned, stopRequestedBy,
                   permissionDenied>>

EngineEndsItself == EngineEndsItselfWithin(MaxRestarts)

\* The end event after stop() or after an error.
EngineEndsAfterStop ==
    /\ Mounted
    /\ PopoverKept
    /\ engine = "ending"
    /\ OnEndHandler("idle")
    /\ UNCHANGED <<navVars, sideVars, evaluation, showAnalysis, history, playVars, hasRecognition,
                   oldEnds, userStoppedRef, recordings, abandoned, stopRequestedBy,
                   permissionDenied>>

\* The end event of an engine object aborted by a level change.
AbortedEngineEnds ==
    /\ Mounted
    /\ PopoverKept
    /\ oldEnds > 0
    /\ oldEnds' = oldEnds - 1
    /\ OnEndHandler(engine)
    /\ UNCHANGED <<navVars, sideVars, evaluation, showAnalysis, history, playVars, hasRecognition,
                   userStoppedRef, recordings, abandoned, stopRequestedBy,
                   permissionDenied>>

\* toggleRecording.  The record button is disabled while isPlaying or
\* isEvaluating.
ToggleRecordingWithin(maxRecordings) ==
    /\ Mounted
    /\ ~(isPlaying \/ isEvaluating)
    /\ IF ~hasRecognition
       THEN UNCHANGED vars
       ELSE IF isRecording
       THEN /\ userStoppedRef' = TRUE
            /\ stopRequestedBy' = "user"
            /\ engine' = IF engine = "listening" THEN "ending" ELSE engine
            /\ UNCHANGED <<navVars, sideVars, popoverVars, evalVars, playVars, hasRecognition,
                           isRecording, oldEnds, transcriptRef, fullTranscriptRef, recordings,
                           restarts, abandoned, permissionDenied>>
       ELSE /\ recordings < maxRecordings
            /\ IF isPlaying
               THEN /\ ttsSpeaking' = FALSE
                    /\ ttsEvents' = SynthCancelEvents
                    /\ sounding' = IF activeSourceRef # 0 THEN SoundingAfterStop(activeSourceRef)
                                   ELSE sounding
                    /\ endedPending' = IF activeSourceRef # 0 THEN EndedAfterStop(activeSourceRef)
                                       ELSE endedPending
                    /\ isPlaying' = FALSE
               ELSE UNCHANGED <<ttsSpeaking, ttsEvents, sounding, endedPending, isPlaying>>
            /\ evaluation' = NoResult
            /\ activeWordIndex' = NoWord
            /\ transcriptRef' = <<>>
            /\ fullTranscriptRef' = <<>>
            /\ userStoppedRef' = FALSE
            /\ stopRequestedBy' = "none"
            /\ recordings' = recordings + 1
            /\ restarts' = 0
            /\ IF engine = "idle"
               THEN engine' = "listening" /\ isRecording' = TRUE
               ELSE UNCHANGED engine /\ isRecording' = FALSE
            /\ UNCHANGED <<navVars, sideVars, showText, isEvaluating, showAnalysis, history, pendingEvals,
                           critiqueCalls, hasRecognition, oldEnds, abandoned,
                           permissionDenied, isAudioLoading,
                           audioCacheRef, pendingPlays, activeSourceRef, plays>>

ToggleRecording == ToggleRecordingWithin(MaxRecordings)

\* -------------------------------------------------------------- playback
\* generateSpeech (geminiService.ts 237-260) resolves with base64 data or with
\* null; data whose byte length is odd makes decodePCM throw.
SpeechOutcomes == {"data", "null", "undecodable"}

\* a buffer source id not in use
FreshSource ==
    CHOOSE n \in 1 .. MaxPlays : n \notin (sounding \cup endedPending \cup {activeSourceRef})

\* playAudio, step 3: play the decoded buffer
PlayBuffer ==
    /\ sounding' = (IF activeSourceRef # 0 THEN SoundingAfterStop(activeSourceRef)
                    ELSE sounding) \cup {FreshSource}
    /\ endedPending' = IF activeSourceRef # 0 THEN EndedAfterStop(activeSourceRef)
                       ELSE endedPending
    /\ activeSourceRef' = FreshSource
    /\ isAudioLoading' = FALSE
    /\ isPlaying' = TRUE

\* playBrowserTTS, given the events pending once the caller's own cancel ran
PlayBrowserTTS ==
    /\ isPlaying' = TRUE
    /\ ttsSpeaking' = TRUE

\* the early return without its isAudioLoading test
PlayRefusedUnlessLoading == isPlaying \/ isRecording

\* playAudio's early return
PlayRefused == isPlaying \/ isRecording \/ isAudioLoading

\* a cache that is never consulted
CacheHitNever(text) == FALSE

\* audioCacheRef.current[text]
CacheHit(text) == text \in audioCacheRef

\* playAudio past its early return, up to its await (or to the end, on a
\* cache hit)
PlayAudioStarts(text, maxPlays) ==
    /\ plays < maxPlays
    /\ plays' = plays + 1
    /\ ttsEvents' = SynthCancelEvents
    /\ IF CacheHit(text)
       THEN /\ PlayBuffer
            /\ ttsSpeaking' = FALSE
            /\ UNCHANGED pendingPlays
       ELSE /\ isAudioLoading' = TRUE
            /\ ttsSpeaking' = FALSE
            /\ pendingPlays' = [pendingPlays EXCEPT ![text] = @ + 1]
            /\ UNCHANGED <<isPlaying, activeSourceRef, sounding, endedPending>>
    /\ UNCHANGED <<navVars, sideVars, evalVars, captureVars, audioCacheRef>>

\* playAudio called from the play button
PlayAudioWithin(text, maxPlays) ==
    /\ Mounted
    /\ IF PlayRefused
       THEN UNCHANGED vars
       ELSE /\ PlayAudioStarts(text, maxPlays)
            /\ ClickReachesDocument

\* playAudio(cleanWord) called from the open popover's button, which stops
\* propagation and is disabled while isPlaying
PlayWordAudioWithin(maxPlays) ==
    /\ Mounted
    /\ activeWordIndex # NoWord
    /\ showText
    /\ ~isPlaying
    /\ IF PlayRefused
       THEN UNCHANGED vars
       ELSE /\ PlayAudioStarts(SharedWord, maxPlays)
            /\ PopoverKept

PlayAudio(text) == PlayAudioWithin(text, MaxPlays)

\* playAudio after generateSpeech resolved
SpeechResolves(text, outcome) ==
    /\ Mounted
    /\ PopoverKept
    /\ pendingPlays[text] > 0
    /\ pendingPlays' = [pendingPlays EXCEPT ![text] = @ - 1]
    /\ IF outcome = "data"
       THEN /\ audioCacheRef' = audioCacheRef \cup {text}
            /\ PlayBuffer
            /\ UNCHANGED <<ttsSpeaking, ttsEvents>>
       ELSE \* null, or the catch block: browser fallback
            /\ isAudioLoading' = FALSE
            /\ ttsEvents' = SynthCancelEvents
            /\ PlayBrowserTTS
            /\ UNCHANGED <<audioCacheRef, activeSourceRef, sounding, endedPending>>
    /\ UNCHANGED <<navVars, sideVars, evalVars, captureVars, plays>>

\* source.onended
OnSourceEnded ==
    /\ isPlaying' = FALSE
    /\ activeSourceRef' = 0

\* a buffer source plays to its end
SourceFinishes(src) ==
    /\ Mounted
    /\ PopoverKept
    /\ src \in sounding
    /\ sounding' = sounding \ {src}
    /\ OnSourceEnded
    /\ UNCHANGED <<navVars, sideVars, evalVars, captureVars, isAudioLoading, audioCacheRef,
                   pendingPlays, endedPending, ttsSpeaking, ttsEvents, plays>>

\* the end event of a source that was stopped
StoppedSourceEnds(src) ==
    /\ Mounted
    /\ PopoverKept
    /\ src \in endedPending
    /\ endedPending' = endedPending \ {src}
    /\ OnSourceEnded
    /\ UNCHANGED <<navVars, sideVars, evalVars, captureVars, isAudioLoading, audioCacheRef,
                   pendingPlays, sounding, ttsSpeaking, ttsEvents, plays>>

\* utterance handlers that leave the flag alone
OnUtteranceEndIgnored == UNCHANGED isPlaying

\* utterance.onend / utterance.onerror
OnUtteranceEnd == isPlaying' = FALSE

\* the utterance is spoken to its end
UtteranceFinishes ==
    /\ Mounted
    /\ PopoverKept
    /\ ttsSpeaking
    /\ ttsSpeaking' = FALSE
    /\ OnUtteranceEnd
    /\ UNCHANGED <<navVars, sideVars, evalVars, captureVars, isAudioLoading, audioCacheRef,
                   pendingPlays, activeSourceRef, sounding, endedPending, ttsEvents, plays>>

\* the end/error event of an utterance that was cancelled
CancelledUtteranceEnds ==
    /\ Mounted
    /\ PopoverKept
    /\ ttsEvents > 0
    /\ ttsEvents' = ttsEvents - 1
    /\ OnUtteranceEnd
    /\ UNCHANGED <<navVars, sideVars, evalVars, captureVars, isAudioLoading, audioCacheRef,
                   pendingPlays, activeSourceRef, sounding, endedPending, ttsSpeaking, plays>>

Next ==
    \/ \E i \in Levels : HandleJumpToLevel(i)
    \/ HandleNext
    \/ \E p \in pendingEvals, o \in EvalOutcomes : EvaluationResolves(p, o)
    \/ ToggleAnalysis
    \/ ToggleRecording
    \/ \E u \in Utterances(recordings, restarts) : OnResult(u)
    \/ \E e \in {"not-allowed", "no-speech"} : OnError(e)
    \/ EngineEndsItself
    \/ EngineEndsAfterStop
    \/ AbortedEngineEnds
    \/ PlayAudio(sentences[currentIndex])
    \/ \E t \in Texts, o \in SpeechOutcomes : SpeechResolves(t, o)
    \/ \E src \in sounding : SourceFinishes(src)
    \/ \E src \in endedPending : StoppedSourceEnds(src)
    \/ UtteranceFinishes
    \/ CancelledUtteranceEnds

Spec == Init /\ [][Next]_vars

\* ---------------------------------------------------------- word popover
\* handleWordClick: stopPropagation, then toggle the clicked word's popover
HandleWordClick(idx) ==
    /\ Mounted
    /\ IF ~showText
       THEN UNCHANGED vars
       ELSE /\ activeWordIndex' = IF activeWordIndex = idx THEN NoWord ELSE idx
            /\ UNCHANGED <<navVars, evalVars, captureVars, playVars, sideVars, showText>>

\* toggleTextVisibility; the click then reaches the document
ToggleTextVisibility ==
    /\ Mounted
    /\ showText' = ~showText
    /\ activeWordIndex' = NoWord
    /\ UNCHANGED <<navVars, evalVars, captureVars, playVars, sideVars>>

\* a click on the page outside every handler that stops propagation
HandleClickOutside ==
    /\ Mounted
    /\ ClickReachesDocument
    /\ UNCHANGED <<navVars, evalVars, captureVars, playVars, sideVars>>

\* ------------------------------------------------------------------- App
\* generateCurriculum resolves with a level list, possibly empty, or rejects
\* (no API key, network error, unparsable answer: the service rethrows).
GenerationOutcomes == {"list", "empty", "rejects"}

\* generateSentenceImage resolves with a data URL or, on any error, with null.
ImageOutcomes == {"url", "null"}

\* A PracticeSession instance in its state after the first render and the
\* mount effects; the image effect has run for level 0 when images is set.
SessionFresh(images) ==
    /\ currentIndex' = 0
    /\ unlockedIndex' = 0
    /\ currentIndexRef' = 0
    /\ isRecording' = FALSE
    /\ isPlaying' = FALSE
    /\ isAudioLoading' = FALSE
    /\ isEvaluating' = FALSE
    /\ evaluation' = NoResult
    /\ showAnalysis' = FALSE
    /\ history' = [i \in Levels |-> NoResult]
    /\ pendingEvals' = {}
    /\ critiqueCalls' = 0
    /\ engine' = "idle"
    /\ oldEnds' = 0
    /\ transcriptRef' = <<>>
    /\ fullTranscriptRef' = <<>>
    /\ userStoppedRef' = FALSE
    /\ recordings' = 0
    /\ restarts' = 0
    /\ abandoned' = {}
    /\ stopRequestedBy' = "none"
    /\ permissionDenied' = FALSE
    /\ audioCacheRef' = {}
    /\ pendingPlays' = [t \in Texts |-> 0]
    /\ activeSourceRef' = 0
    /\ sounding' = {}
    /\ endedPending' = {}
    /\ ttsSpeaking' = FALSE
    /\ ttsEvents' = 0
    /\ plays' = 0
    /\ enableImages' = images
    /\ sentenceImages' = {}
    /\ loadingImage' = images
    /\ imageFetches' = [f \in Levels \X ImageFetchKinds |->
                           IF images /\ f \in {<<0, "current">>, <<1, "preload">>}
                           THEN 1 ELSE 0]
    /\ imageCalls' = [i \in Levels |-> IF images /\ i \in {0, 1} THEN 1 ELSE 0]
    /\ closureEnds' = [i \in Levels |-> 0]
    /\ blankCompletions' = 0
    /\ activeWordIndex' = NoWord
    /\ showText' = TRUE
    /\ UNCHANGED hasRecognition

sessionVars == <<currentIndex, unlockedIndex, currentIndexRef, evalVars, captureVars,
                 playVars, imageVars, closureEnds, blankCompletions, popoverVars>>

\* InputSection's handleStart: if (isLoading) return
StartRefused == isGenerating

\* handleStart up to its await
HandleStart ==
    /\ step = "INPUT"
    /\ IF StartRefused
       THEN UNCHANGED vars
       ELSE /\ isGenerating' = TRUE
            /\ generating' = TRUE
            /\ UNCHANGED <<step, sentenceCount, lastGeneration, sessionVars>>

\* handleStart without its finally block
GeneratingAfterSettleOnSuccess(outcome) == IF outcome = "rejects" THEN isGenerating ELSE FALSE

\* handleStart's finally block: setIsGenerating(false)
GeneratingAfterSettle(outcome) == FALSE

\* handleStart after generateCurriculum settled
GenerationResolves(outcome, images) ==
    /\ generating
    /\ generating' = FALSE
    /\ lastGeneration' = outcome
    /\ isGenerating' = GeneratingAfterSettle(outcome)
    /\ IF outcome = "list"
       THEN /\ sentenceCount' = NumLevels
            /\ step' = "PRACTICE"
            /\ SessionFresh(images)
       ELSE IF outcome = "empty"
       THEN /\ sentenceCount' = 0
            /\ step' = "PRACTICE"
            /\ UNCHANGED sessionVars
       ELSE UNCHANGED <<step, sentenceCount, sessionVars>>

\* handleReset, from the completion screen or as the session's onBackToInput;
\* the session instance, if any, is discarded.
HandleReset ==
    /\ step = "COMPLETED" \/ Mounted
    /\ step' = "INPUT"
    /\ sentenceCount' = 0
    /\ isGenerating' = FALSE
    /\ SessionFresh(FALSE)
    /\ UNCHANGED <<generating, lastGeneration>>

\* a generateSentenceImage call settles: .then / .catch / .finally
ImageResolves(i, kind, outcome) ==
    /\ Mounted
    /\ PopoverKept
    /\ imageFetches[<<i, kind>>] > 0
    /\ imageFetches' = [imageFetches EXCEPT ![<<i, kind>>] = @ - 1]
    /\ sentenceImages' = IF outcome = "url" THEN sentenceImages \cup {i} ELSE sentenceImages
    /\ loadingImage' = IF kind = "current" THEN FALSE ELSE loadingImage
    /\ UNCHANGED <<navVars, evalVars, captureVars, playVars, appVars, enableImages,
                   imageCalls, closureEnds, blankCompletions>>

AppInit ==
    /\ step = "INPUT"
    /\ currentIndex = 0
    /\ unlockedIndex = 0
    /\ currentIndexRef = 0
    /\ isRecording = FALSE
    /\ isPlaying = FALSE
    /\ isAudioLoading = FALSE
    /\ isEvaluating = FALSE
    /\ evaluation = NoResult
    /\ showAnalysis = FALSE
    /\ history = [i \in Levels |-> NoResult]
    /\ pendingEvals = {}
    /\ critiqueCalls = 0
    /\ hasRecognition \in BOOLEAN
    /\ engine = "idle"
    /\ oldEnds = 0
    /\ transcriptRef = <<>>
    /\ fullTranscriptRef = <<>>
    /\ userStoppedRef = FALSE
    /\ recordings = 0
    /\ restarts = 0
    /\ abandoned = {}
    /\ stopRequestedBy = "none"
    /\ permissionDenied = FALSE
    /\ audioCacheRef = {}
    /\ pendingPlays = [t \in Texts |-> 0]
    /\ activeSourceRef = 0
    /\ sounding = {}
    /\ endedPending = {}
    /\ ttsSpeaking = FALSE
    /\ ttsEvents = 0
    /\ plays = 0
    /\ isGenerating = FALSE
    /\ generating = FALSE
    /\ lastGeneration = "none"
    /\ sentenceCount = 0
    /\ enableImages = FALSE
    /\ sentenceImages = {}
    /\ loadingImage = FALSE
    /\ imageFetches = [f \in Levels \X ImageFetchKinds |-> 0]
    /\ imageCalls = [i \in Levels |-> 0]
    /\ closureEnds = [i \in Levels |-> 0]
    /\ blankCompletions = 0
    /\ activeWordIndex = NoWord
    /\ showText = TRUE

\* App with the session it renders, from the input screen on.  The analysis
\* panel toggle is left out: it writes showAnalysis only, which no handler reads.
AppNext ==
    \/ HandleStart
    \/ \E o \in GenerationOutcomes, images \in BOOLEAN : GenerationResolves(o, images)
    \/ HandleReset
    \/ \E i \in Levels : HandleJumpToLevel(i)
    \/ HandleNext
    \/ \E p \in pendingEvals, o \in EvalOutcomes : EvaluationResolves(p, o)
    \/ ToggleRecordingWithin(MaxAppRecordings)
    \/ \E u \in Utterances(recordings, restarts) : OnResult(u)
    \/ \E e \in {"not-allowed", "no-speech"} : OnErrorWithin(e, MaxAppRestarts)
    \/ EngineEndsItselfWithin(MaxAppRestarts)
    \/ EngineEndsAfterStop
    \/ AbortedEngineEnds
    \/ PlayAudioWithin(sentences[currentIndex], MaxAppPlays)
    \/ \E t \in Texts, o \in SpeechOutcomes : SpeechResolves(t, o)
    \/ \E src \in sounding : SourceFinishes(src)
    \/ \E src \in endedPending : StoppedSourceEnds(src)
    \/ UtteranceFinishes
    \/ CancelledUtteranceEnds
    \/ \E i \in Levels, k \in ImageFetchKinds, o \in ImageOutcomes : ImageResolves(i, k, o)

AppSpec == AppInit /\ [][AppNext]_vars

\* ------------------------------------------------- the basic PracticeSession
\* src/components/PracticeSession.tsx: no history, no currentIndexRef, no
\* accumulated transcript, no user-stopped flag.  Its playback (local speech
\* engine only) is left out: no capture or evaluation handler reads it, and
\* isPlaying is false throughout.

\* what the basic session never writes, and its word popover, left out
basicUnused == <<currentIndexRef, history, oldEnds, fullTranscriptRef, userStoppedRef,
                 restarts, abandoned, stopRequestedBy, permissionDenied, isAudioLoading,
                 audioCacheRef, pendingPlays, activeSourceRef, sounding, endedPending,
                 ttsSpeaking, ttsEvents, plays, appVars, imageVars, blankCompletions,
                 popoverVars>>

\* The effect keyed on currentIndex: its cleanup aborts the engine of the
\* level left, whose onend (bound to that level's render) is still to
\* come if the engine was active; then a new engine is created for idx.
\* transcriptRef is not touched.
BasicLevelEffect(idx) ==
    /\ currentIndex' = idx
    /\ closureEnds' = IF hasRecognition /\ EngineActive
                      THEN [closureEnds EXCEPT ![currentIndex] = @ + 1]
                      ELSE closureEnds
    /\ engine' = "idle"

\* handleNext; its button is rendered only while an evaluation is shown
BasicHandleNext ==
    /\ Mounted
    /\ evaluation # NoResult
    /\ evaluation' = NoResult
    /\ showAnalysis' = FALSE
    /\ isPlaying' = FALSE
    /\ IF currentIndex + 1 < NumLevels
       THEN /\ unlockedIndex' = UnlockedAfterNext(currentIndex + 1)
            /\ BasicLevelEffect(currentIndex + 1)
            /\ UNCHANGED step
       ELSE /\ step' = "COMPLETED"
            /\ UNCHANGED <<currentIndex, unlockedIndex, closureEnds, engine>>
    /\ UNCHANGED <<isRecording, isEvaluating, pendingEvals, critiqueCalls, hasRecognition,
                   transcriptRef, recordings, basicUnused>>

\* handleJumpToLevel; the level buttons above unlockedIndex are disabled
BasicHandleJumpToLevel(index) ==
    /\ Mounted
    /\ JumpAllowed(index)
    /\ evaluation' = NoResult
    /\ showAnalysis' = FALSE
    /\ isPlaying' = FALSE
    /\ IF index # currentIndex
       THEN BasicLevelEffect(index)
       ELSE UNCHANGED <<currentIndex, closureEnds, engine>>
    /\ UNCHANGED <<step, unlockedIndex, isRecording, isEvaluating, pendingEvals, critiqueCalls,
                   hasRecognition, transcriptRef, recordings, basicUnused>>

\* toggleRecording; the record button is disabled while isPlaying
BasicToggleRecording ==
    /\ Mounted
    /\ ~isPlaying
    /\ IF ~hasRecognition
       THEN UNCHANGED vars
       ELSE IF isRecording
       THEN /\ engine' = IF engine = "listening" THEN "ending" ELSE engine
            /\ UNCHANGED <<navVars, evalVars, hasRecognition, isRecording, transcriptRef,
                           recordings, isPlaying, closureEnds, basicUnused>>
       ELSE /\ recordings < MaxBasicRecordings
            /\ recordings' = recordings + 1
            /\ evaluation' = NoResult
            /\ showAnalysis' = FALSE
            /\ transcriptRef' = <<>>
            /\ IF engine = "idle"
               THEN engine' = "listening" /\ isRecording' = TRUE
               ELSE UNCHANGED engine /\ isRecording' = FALSE
            /\ UNCHANGED <<navVars, isEvaluating, pendingEvals, critiqueCalls, hasRecognition,
                           isPlaying, closureEnds, basicUnused>>

\* onresult: the transcript heard so far replaces transcriptRef
BasicOnResult(u) ==
    /\ Mounted
    /\ engine = "listening"
    /\ transcriptRef' = u
    /\ UNCHANGED <<navVars, evalVars, hasRecognition, isRecording, engine, recordings,
                   isPlaying, closureEnds, basicUnused>>

\* onerror; the engine then ends
BasicOnError(e) ==
    /\ Mounted
    /\ engine = "listening"
    /\ engine' = "ending"
    /\ isRecording' = IF IsPermissionDenial(e) THEN FALSE ELSE isRecording
    /\ UNCHANGED <<navVars, evalVars, hasRecognition, transcriptRef, recordings, isPlaying,
                   closureEnds, basicUnused>>

\* onend of an engine created on level `level`, with handleEvaluation up to
\* its await: the target is the sentence of the render that created the engine.
BasicOnEnd(level) ==
    /\ isRecording' = FALSE
    /\ IF CallsCritique(transcriptRef)
       THEN /\ isEvaluating' = TRUE
            /\ critiqueCalls' = critiqueCalls + 1
            /\ pendingEvals' = pendingEvals \cup {[id |-> critiqueCalls + 1,
                                                    recordingIndex |-> level,
                                                    target |-> sentences[level],
                                                    transcript |-> transcriptRef]}
       ELSE UNCHANGED <<isEvaluating, critiqueCalls, pendingEvals>>
    /\ UNCHANGED <<navVars, evaluation, showAnalysis, hasRecognition, transcriptRef, recordings,
                   isPlaying, basicUnused>>

\* The current engine ends: after stop(), after an error, or by itself.
BasicEngineEnds ==
    /\ Mounted
    /\ EngineActive
    /\ engine' = "idle"
    /\ BasicOnEnd(currentIndex)
    /\ UNCHANGED closureEnds

\* The end event of an engine aborted when its level was left.
BasicAbortedEngineEnds(level) ==
    /\ Mounted
    /\ closureEnds[level] > 0
    /\ closureEnds' = [closureEnds EXCEPT ![level] = @ - 1]
    /\ BasicOnEnd(level)
    /\ UNCHANGED engine

\* handleEvaluation after its await
BasicEvaluationResolves(p, outcome) ==
    /\ Mounted
    /\ p \in pendingEvals
    /\ pendingEvals' = pendingEvals \ {p}
    /\ evaluation' = EvaluationResultOf(p, outcome)
    /\ isEvaluating' = FALSE
    /\ showAnalysis' = TRUE
    /\ UNCHANGED <<navVars, critiqueCalls, hasRecognition, isRecording, engine, transcriptRef,
                   recordings, isPlaying, closureEnds, basicUnused>>

BasicNext ==
    \/ \E i \in Levels : BasicHandleJumpToLevel(i)
    \/ BasicHandleNext
    \/ BasicToggleRecording
    \/ \E u \in Utterances(recordings, 0) : BasicOnResult(u)
    \/ \E e \in {"not-allowed", "no-speech"} : BasicOnError(e)
    \/ BasicEngineEnds
    \/ \E l \in Levels : BasicAbortedEngineEnds(l)
    \/ \E p \in pendingEvals, o \in EvalOutcomes : BasicEvaluationResolves(p, o)

BasicSpec == Init /\ [][BasicNext]_vars

\* ------------------------------------------------------- after teardown
\* The session's back button: onBackToInput is App's handleReset; the session
\* unmounts, and what its closures and refs hold stays reachable for the
\* continuations and events still to come.
OnBackToInput ==
    /\ Mounted
    /\ step' = "INPUT"
    /\ sentenceCount' = 0
    /\ isGenerating' = FALSE
    /\ Teardown
    /\ ClickReachesDocument
    /\ UNCHANGED <<unlockedIndex, generating, lastGeneration, imageVars, closureEnds,
                   blankCompletions>>

\* What playAudio's continuation makes audible once the AudioContext is closed:
\* a missing or undecodable answer goes to playBrowserTTS; decoded audio is
\* started on the closed context (silent) unless that throws, and then the
\* catch goes to playBrowserTTS too.
LateOutcomeSpeaks(outcome, throws) == outcome # "data" \/ throws

\* playAudio after generateSpeech resolved, in a session that was torn down
LateSpeechResolves(text, outcome, throws) ==
    /\ ~Mounted
    /\ pendingPlays[text] > 0
    /\ pendingPlays' = [pendingPlays EXCEPT ![text] = @ - 1]
    /\ audioCacheRef' = IF outcome = "data" THEN audioCacheRef \cup {text} ELSE audioCacheRef
    /\ ttsSpeaking' = IF LateOutcomeSpeaks(outcome, throws) THEN TRUE ELSE ttsSpeaking
    /\ ttsEvents' = IF LateOutcomeSpeaks(outcome, throws) THEN SynthCancelEvents ELSE ttsEvents
    /\ UNCHANGED <<navVars, evalVars, captureVars, sideVars, popoverVars, isPlaying,
                   isAudioLoading, activeSourceRef, sounding, endedPending, plays>>

\* an utterance still speaking after the teardown comes to its end
LateUtteranceFinishes ==
    /\ ~Mounted
    /\ ttsSpeaking
    /\ ttsSpeaking' = FALSE
    /\ UNCHANGED <<navVars, evalVars, captureVars, sideVars, popoverVars, isPlaying,
                   isAudioLoading, audioCacheRef, pendingPlays, activeSourceRef, sounding,
                   endedPending, ttsEvents, plays>>

\* the end event of the engine aborted by the unmount cleanup
LateEngineEnds ==
    /\ ~Mounted
    /\ oldEnds > 0
    /\ oldEnds' = oldEnds - 1
    /\ OnEndHandler(engine)
    /\ PopoverKept
    /\ UNCHANGED <<navVars, sideVars, evaluation, showAnalysis, history, playVars, hasRecognition,
                   userStoppedRef, recordings, abandoned, stopRequestedBy,
                   permissionDenied>>

\* The session up to its teardown and what follows it.
TeardownNext ==
    \/ \E i \in Levels : HandleJumpToLevel(i)
    \/ HandleNext
    \/ OnBackToInput
    \/ \E p \in pendingEvals, o \in EvalOutcomes : EvaluationResolves(p, o)
    \/ ToggleRecordingWithin(MaxTeardownRecordings)
    \/ \E u \in Utterances(recordings, restarts) : OnResult(u)
    \/ \E e \in {"not-allowed", "no-speech"} : OnErrorWithin(e, MaxAppRestarts)
    \/ EngineEndsItselfWithin(MaxAppRestarts)
    \/ EngineEndsAfterStop
    \/ AbortedEngineEnds
    \/ PlayAudioWithin(sentences[currentIndex], MaxTeardownPlays)
    \/ \E t \in Texts, o \in SpeechOutcomes : SpeechResolves(t, o)
    \/ \E src \in sounding : SourceFinishes(src)
    \/ \E src \in endedPending : StoppedSourceEnds(src)
    \/ UtteranceFinishes
    \/ CancelledUtteranceEnds
    \/ \E t \in Texts, o \in SpeechOutcomes, throws \in BOOLEAN : LateSpeechResolves(t, o, throws)
    \/ LateUtteranceFinishes
    \/ LateEngineEnds

TeardownSpec == Init /\ [][TeardownNext]_vars

\* The session with its word popover, under small bounds.
ResetNext ==
    \/ \E i \in Levels : HandleJumpToLevel(i)
    \/ HandleNext
    \/ \E p \in pendingEvals, o \in EvalOutcomes : EvaluationResolves(p, o)
    \/ ToggleRecordingWithin(MaxResetRecordings)
    \/ \E u \in Utterances(recordings, restarts) : OnResult(u)
    \/ \E e \in {"not-allowed", "no-speech"} : OnErrorWithin(e, MaxAppRestarts)
    \/ EngineEndsItselfWithin(MaxAppRestarts)
    \/ EngineEndsAfterStop
    \/ AbortedEngineEnds
    \/ PlayAudioWithin(sentences[currentIndex], MaxResetPlays)
    \/ \E t \in Texts, o \in SpeechOutcomes : SpeechResolves(t, o)
    \/ \E src \in sounding : SourceFinishes(src)
    \/ \E src \in endedPending : StoppedSourceEnds(src)
    \/ UtteranceFinishes
    \/ CancelledUtteranceEnds
    \/ \E w \in WordIndexes : HandleWordClick(w)
    \/ ToggleTextVisibility
    \/ HandleClickOutside

ResetSpec == Init /\ [][ResetNext]_vars

\* The session with the sentence's play button and the play button of an open
\* word popover, whose word occurs on every level.
CacheNext ==
    \/ \E i \in Levels : HandleJumpToLevel(i)
    \/ HandleNext
    \/ \E p \in pendingEvals, o \in EvalOutcomes : EvaluationResolves(p, o)
    \/ ToggleRecordingWithin(MaxCacheRecordings)
    \/ \E u \in Utterances(recordings, restarts) : OnResult(u)
    \/ EngineEndsItselfWithin(MaxAppRestarts)
    \/ EngineEndsAfterStop
    \/ AbortedEngineEnds
    \/ PlayAudioWithin(sentences[currentIndex], MaxCachePlays)
    \/ PlayWordAudioWithin(MaxCachePlays)
    \/ \E t \in Texts, o \in SpeechOutcomes : SpeechResolves(t, o)
    \/ \E src \in sounding : SourceFinishes(src)
    \/ \E src \in endedPending : StoppedSourceEnds(src)
    \/ UtteranceFinishes
    \/ CancelledUtteranceEnds
    \/ \E w \in WordIndexes : HandleWordClick(w)

CacheSpec == Init /\ [][CacheNext]_vars

\* handleRecordingComplete driven directly, with navigation and the critique
\* results; capture and playback are left out.
CompleteNext ==
    \/ \E i \in Levels : HandleJumpToLevel(i)
    \/ HandleNext
    \/ \E t \in CompleteTranscripts : HandleRecordingComplete(t)
    \/ \E p \in pendingEvals, o \in EvalOutcomes : EvaluationResolves(p, o)
    \/ ToggleAnalysis

CompleteSpec == Init /\ [][CompleteNext]_vars

\* Navigation, evaluation and capture with playback left out.  Playback never
\* writes a navigation, evaluation or capture variable, and the only thing
\* those handlers read of it is isPlaying, which disables the record button;
\* so every behaviour of Spec, restricted to those variables, is a behaviour
\* of CaptureSpec, which can therefore afford more recordings and restarts.
CaptureNext ==
    \/ \E i \in Levels : HandleJumpToLevel(i)
    \/ HandleNext
    \/ \E p \in pendingEvals, o \in EvalOutcomes : EvaluationResolves(p, o)
    \/ ToggleAnalysis
    \/ ToggleRecordingWithin(MaxCaptureRecordings)
    \/ \E u \in Utterances(recordings, restarts) : OnResult(u)
    \/ \E e \in {"not-allowed", "no-speech"} : OnErrorWithin(e, MaxCaptureRestarts)
    \/ EngineEndsItselfWithin(MaxCaptureRestarts)
    \/ EngineEndsAfterStop
    \/ AbortedEngineEnds

CaptureSpec == Init /\ [][CaptureNext]_vars

\* The same handlers with fewer recordings and more restarts of each, to
\* follow a recording through three capture segments.
SegmentNext ==
    \/ \E i \in Levels : HandleJumpToLevel(i)
    \/ HandleNext
    \/ \E p \in pendingEvals, o \in EvalOutcomes : EvaluationResolves(p, o)
    \/ ToggleAnalysis
    \/ ToggleRecordingWithin(MaxSegmentRecordings)
    \/ \E u \in Utterances(recordings, restarts) : OnResult(u)
    \/ \E e \in {"not-allowed", "no-speech"} : OnErrorWithin(e, MaxSegmentRestarts)
    \/ EngineEndsItselfWithin(MaxSegmentRestarts)
    \/ EngineEndsAfterStop
    \/ AbortedEngineEnds

SegmentSpec == Init /\ [][SegmentNext]_vars

\* The whole session with fewer recordings, and with the platform's promises
\* kept: a generateSpeech call settles, a started or stopped buffer source
\* delivers onended, a spoken or cancelled utterance delivers end or error.
LiveNext ==
    \/ \E i \in Levels : HandleJumpToLevel(i)
    \/ HandleNext
    \/ \E p \in pendingEvals, o \in EvalOutcomes : EvaluationResolves(p, o)
    \/ ToggleAnalysis
    \/ ToggleRecordingWithin(MaxLiveRecordings)
    \/ \E u \in Utterances(recordings, restarts) : OnResult(u)
    \/ \E e \in {"not-allowed", "no-speech"} : OnErrorWithin(e, MaxLiveRestarts)
    \/ EngineEndsItselfWithin(MaxLiveRestarts)
    \/ EngineEndsAfterStop
    \/ AbortedEngineEnds
    \/ PlayAudioWithin(sentences[currentIndex], MaxLivePlays)
    \/ \E t \in Texts, o \in SpeechOutcomes : SpeechResolves(t, o)
    \/ \E src \in sounding : SourceFinishes(src)
    \/ \E src \in endedPending : StoppedSourceEnds(src)
    \/ UtteranceFinishes
    \/ CancelledUtteranceEnds

PlatformFairness ==
    /\ WF_vars(\E t \in Texts, o \in SpeechOutcomes : SpeechResolves(t, o))
    /\ WF_vars(\E src \in sounding : SourceFinishes(src))
    /\ WF_vars(\E src \in endedPending : StoppedSourceEnds(src))
    /\ WF_vars(UtteranceFinishes)
    /\ WF_vars(CancelledUtteranceEnds)

LiveSpec == Init /\ [][LiveNext]_vars /\ PlatformFairness

\* ================================================================ claims
Stored == {i \in Levels : history[i] # NoResult}
SoundingStreams == Cardinality(sounding) + (IF ttsSpeaking THEN 1 ELSE 0)

\* C1: when a critique call resolves while the active level differs from the
\* index captured at call time, the result is discarded: history, the
\* displayed evaluation and showAnalysis keep their values.
C1_StaleResultDiscarded ==
    [][\A p \in pendingEvals, o \in EvalOutcomes :
          (EvaluationResolves(p, o) /\ currentIndex # p.recordingIndex)
              => UNCHANGED <<history, evaluation, showAnalysis>>]_vars

\* Two calls were made and both resolved, yet only the first one's result is
\* stored: the second resolved on another level and was dropped.
C1_Witness ==
    /\ critiqueCalls = 2
    /\ pendingEvals = {}
    /\ history[0].id = 1
    /\ Stored = {0}

\* C2: every stored result was computed for the text of the level it is
\* stored under, and the displayed result for the text of the displayed level.
C2_ResultBelongsToLevel ==
    /\ \A i \in Stored : history[i].target = sentences[i]
    /\ evaluation # NoResult => evaluation.target = sentences[currentIndex]

\* Results are stored for two levels while a stale call was dropped on the way.
C2_Witness ==
    /\ Cardinality(Stored) = 2
    /\ evaluation # NoResult
    /\ currentIndex = 0
    /\ unlockedIndex = 1

\* C8 as claimed: a critique call that fails (the service's catch block)
\* leaves the history as it was.
C8_FailureLeavesHistory ==
    [][\A p \in pendingEvals :
          EvaluationResolves(p, "fallback") => UNCHANGED history]_vars

\* C9: a result that resolves while the captured index is still active is
\* stored under that index only, displayed, analysis shown, isEvaluating off.
C9_FreshResultApplied ==
    [][\A p \in pendingEvals, o \in EvalOutcomes :
          (EvaluationResolves(p, o) /\ currentIndex = p.recordingIndex)
              => /\ history' = [history EXCEPT
                                  ![p.recordingIndex] = EvaluationResultOf(p, o)]
                 /\ evaluation' = EvaluationResultOf(p, o)
                 /\ showAnalysis'
                 /\ ~isEvaluating']_vars

\* A second attempt on level 0 has resolved on level 0: its result has
\* replaced the first attempt's entry and is the one displayed.
C9_Witness ==
    /\ history[0].id = 2
    /\ history[0].kind = "ok"
    /\ evaluation = history[0]
    /\ ~isEvaluating

\* C10: handleJumpToLevel(i) sets currentIndex to i when i <= unlockedIndex and
\* changes nothing of currentIndex, unlockedIndex, history when i > unlockedIndex.
C10_JumpContract ==
    [][\A i \in Levels :
          HandleJumpToLevel(i)
              => IF i <= unlockedIndex
                 THEN currentIndex' = i /\ UNCHANGED unlockedIndex
                 ELSE UNCHANGED <<currentIndex, unlockedIndex, history>>]_vars

\* The user has jumped back from the frontier to the first level.
C10_Witness ==
    /\ unlockedIndex = NumLevels - 1
    /\ currentIndex = 0
    /\ evaluation = history[0]

CaptureActive == engine = "listening"

\* C3 as claimed: audio playback (buffer source or fallback engine) and speech
\* capture are never active together.
C3_PlaybackCaptureExclusive == ~(SoundingStreams > 0 /\ CaptureActive)

\* C4 as claimed: at most one audio output stream is sounding.
C4_SingleStream == SoundingStreams <= 1

\* C5 as claimed: a level change while a play request is loading leaves the
\* controller idle, and the abandoned request starts no playback when its
\* fetch resolves on the new level.
C5_AbandonedRequestCancelled ==
    [][/\ (isAudioLoading /\ currentIndex' # currentIndex)
              => (~isAudioLoading' /\ ~isPlaying')
       /\ \A t \in Texts, o \in SpeechOutcomes :
              (SpeechResolves(t, o) /\ t # sentences[currentIndex])
                  => UNCHANGED <<sounding, ttsSpeaking, isPlaying>>]_vars

\* C6 as claimed: a level change in the Playing state ends with no stream
\* sounding and isPlaying false.
C6_SilenceAfterSwitch ==
    [][(isPlaying /\ currentIndex' # currentIndex)
          => (SoundingStreams' = 0 /\ ~isPlaying')]_vars

\* the recordings whose words occur in a transcript
RecordingsIn(t) == {RecordingOf(t[k]) : k \in {j \in 1 .. Len(t) : t[j] # Sp}}

\* C7: a level change while capture is listening leaves capture idle
\* (engine not listening, isRecording false), and no text of the recording it
\* cut off is ever handed to handleRecordingComplete and the critique service.
C7_AbandonedCaptureSilent ==
    /\ [][(engine = "listening" /\ currentIndex' # currentIndex)
              => (engine' = "idle" /\ ~isRecording')]_vars
    /\ [](\A p \in pendingEvals : RecordingsIn(p.transcript) \cap abandoned = {})

\* A recording that had captured text was cut off by a level change, its
\* engine's end event has been delivered, and a later recording was evaluated.
C7_Witness ==
    /\ abandoned # {}
    /\ oldEnds = 0
    /\ critiqueCalls = 2
    /\ \E p \in pendingEvals : p.id = 2

\* C11: handleNext on a level that has a successor moves to it and raises
\* unlockedIndex to at least that index; on the last level it completes the
\* session (step COMPLETED) and leaves currentIndex and unlockedIndex alone.
C11_AdvanceContract ==
    [][HandleNext =>
          IF currentIndex + 1 < NumLevels
          THEN /\ currentIndex' = currentIndex + 1
               /\ unlockedIndex' = (IF unlockedIndex > currentIndex + 1
                                     THEN unlockedIndex ELSE currentIndex + 1)
               /\ step' = step
          ELSE /\ step' = "COMPLETED"
               /\ UNCHANGED <<currentIndex, unlockedIndex>>]_vars

\* The session was completed from the last level.
C11_Witness ==
    /\ step = "COMPLETED"
    /\ currentIndex = NumLevels - 1
    /\ unlockedIndex = NumLevels - 1

\* C12: unlockedIndex never decreases, whatever the operation.
C12_UnlockedMonotonic == [][unlockedIndex' >= unlockedIndex]_vars

\* The user is back on level 1 with its stored result while the frontier,
\* reached earlier, is still the last level.
C12_Witness ==
    /\ unlockedIndex = NumLevels - 1
    /\ currentIndex = 1
    /\ evaluation # NoResult
    /\ evaluation = history[1]

\* C13: only handleNext changes unlockedIndex.
C13_OnlyNextUnlocks == [][unlockedIndex' # unlockedIndex => HandleNext]_vars

\* After unlocking level 1 the user went back to level 0 and recorded it
\* again; the second result is stored and the frontier is where it was.
C13_Witness ==
    /\ unlockedIndex = 1
    /\ currentIndex = 0
    /\ history[0].id = 2

\* C14 as claimed: a critique call is made (handleRecordingComplete runs with
\* a transcript) only when the user-stopped flag was set by the user's stop
\* click, never after an engine error or a level switch set it.
C14_OnlyUserStopFinalizes ==
    [][critiqueCalls' # critiqueCalls => stopRequestedBy = "user"]_vars

\* the words of a transcript, blanks left out
Words(t) == SelectSeq(t, LAMBDA c : c # Sp)

\* the text of the segments of the running recording, in order: the segments
\* that ended with text, then the live one
SegmentTexts == [k \in 1 .. restarts |-> Word(recordings, k - 1)] \o Words(transcriptRef)

\* C15: the transcript handed to evaluation after a user's stop is the text
\* of all capture segments of the recording in order, without leading or
\* trailing blanks, however many engine-imposed restarts lay in between.
C15_SegmentsConcatenated ==
    [][(critiqueCalls' = critiqueCalls + 1 /\ stopRequestedBy = "user")
          => \A p \in pendingEvals' \ pendingEvals :
                 /\ Words(p.transcript) = SegmentTexts
                 /\ Trim(p.transcript) = p.transcript]_vars

\* A recording that was restarted twice was stopped by the user and its
\* three segments were handed to evaluation.
C15_Witness ==
    /\ stopRequestedBy = "user"
    /\ \E p \in pendingEvals :
           Words(p.transcript) = <<Word(1, 0), Word(1, 1), Word(1, 2)>>

\* C16: the engine end after a user's stop emits the accumulation buffer
\* followed by the live transcript, trimmed, and only if that text is not
\* empty; afterwards both buffers are empty and isRecording is false.
C16_UserStopFinalizes ==
    [][(EngineEndsAfterStop /\ stopRequestedBy = "user")
          => LET text == Words(fullTranscriptRef) \o Words(transcriptRef) IN
             /\ IF text # <<>>
                THEN /\ critiqueCalls' = critiqueCalls + 1
                     /\ \A p \in pendingEvals' \ pendingEvals :
                            /\ Words(p.transcript) = text
                            /\ Trim(p.transcript) = p.transcript
                ELSE UNCHANGED <<critiqueCalls, pendingEvals>>
             /\ fullTranscriptRef' = <<>>
             /\ transcriptRef' = <<>>
             /\ ~isRecording']_vars

\* A user's stop was finalized with text from the accumulation buffer and
\* from the live transcript; the buffers are empty again.
C16_Witness ==
    /\ stopRequestedBy = "user"
    /\ engine = "idle"
    /\ fullTranscriptRef = <<>>
    /\ transcriptRef = <<>>
    /\ ~isRecording
    /\ \E p \in pendingEvals : p.transcript = <<Word(1, 0), Sp, Word(1, 1)>>

\* C17: while the user-stopped flag is clear, an end of the recording engine
\* appends the live transcript to the accumulation buffer, clears it and
\* restarts capture: the engine listens again and isRecording stays true.
C17_AutoRestartKeepsListening ==
    [][((EngineEndsItselfWithin(MaxSegmentRestarts) \/ EngineEndsAfterStop)
           /\ ~userStoppedRef /\ isRecording)
          => /\ Words(fullTranscriptRef') = Words(fullTranscriptRef) \o Words(transcriptRef)
             /\ transcriptRef' = <<>>
             /\ engine' = "listening"
             /\ isRecording']_vars

\* Capture is listening in its third segment, the first two accumulated.
C17_Witness ==
    /\ engine = "listening"
    /\ isRecording
    /\ ~userStoppedRef
    /\ restarts = 2
    /\ Words(fullTranscriptRef) = <<Word(recordings, 0), Word(recordings, 1)>>

\* C18 as claimed: once onerror has reported a permission denial, capture is
\* never listening again in this session.
C18_DenialDisablesCapture == ~(permissionDenied /\ engine = "listening")

\* C19: playAudio called while loading, playing or recording changes nothing:
\* no synthesis request, no output, no state change.
C19_RefusedPlayIsNoOp ==
    [][((isPlaying \/ isRecording \/ isAudioLoading)
           /\ PlayAudio(sentences[currentIndex]))
          => UNCHANGED vars]_vars

\* A request for the current level is loading, and it is the only request
\* made although play can be asked for again.
C19_Witness ==
    /\ Mounted
    /\ isAudioLoading
    /\ pendingPlays[sentences[currentIndex]] = 1
    /\ plays = 1

\* the playback controller is not Idle
PlaybackBusy == isPlaying \/ isAudioLoading

\* C20: a synthesis fetch that yields nothing (null, or data that cannot be
\* decoded) falls back to the local speech engine; the end of an utterance,
\* spoken out or cancelled, clears isPlaying; and a controller that is
\* loading or playing is eventually Idle again while the session is mounted.
C20_PlaybackReturnsToIdle ==
    /\ [][\A t \in Texts, o \in SpeechOutcomes \ {"data"} :
              SpeechResolves(t, o) => (ttsSpeaking' /\ isPlaying' /\ ~isAudioLoading')]_vars
    /\ [][(UtteranceFinishes \/ CancelledUtteranceEnds) => ~isPlaying']_vars
    /\ [](PlaybackBusy => <>(~PlaybackBusy \/ ~Mounted))

\* The fallback utterance of a failed fetch was spoken to its end and the
\* controller is Idle.
C20_Witness ==
    /\ Mounted
    /\ plays = 1
    /\ audioCacheRef = {}
    /\ pendingPlays = [t \in Texts |-> 0]
    /\ ~ttsSpeaking
    /\ ttsEvents = 0
    /\ ~PlaybackBusy

\* C21: after a change of the level index to i, the displayed evaluation is
\* the stored result of i with analysis visible and no critique call made,
\* or, when i has no stored result, empty with analysis hidden.
C21_ResetRestoresHistory ==
    [][currentIndex' # currentIndex
          => IF history[currentIndex'] # NoResult
             THEN /\ evaluation' = history[currentIndex']
                  /\ showAnalysis'
                  /\ critiqueCalls' = critiqueCalls
             ELSE /\ evaluation' = NoResult
                  /\ ~showAnalysis']_vars

\* Level 0 was evaluated once, left and entered again: its result is
\* displayed and no further critique call was made.
C21_Witness ==
    /\ unlockedIndex = 1
    /\ currentIndex = 0
    /\ critiqueCalls = 1
    /\ pendingEvals = {}
    /\ evaluation # NoResult
    /\ evaluation = history[0]
    /\ showAnalysis

\* C22: over a session the image service is invoked at most once per level: a
\* level whose image is cached, or whose fetch was already issued as current
\* level or as preload, is not fetched again.
C22_ImageFetchedOnce == \A i \in Levels : imageCalls[i] <= 1

\* C23: no collaborator failure leaves the session stuck: whatever way a
\* generation, a critique, a synthesis or an image call settles, its busy flag
\* is set only while such a call is still in flight, and a failed critique on
\* its own level ends with isEvaluating false and the fallback result shown.
C23_FailuresAbsorbed ==
    /\ isGenerating => generating
    /\ isEvaluating => pendingEvals # {}
    /\ isAudioLoading => \E t \in Texts : pendingPlays[t] > 0
    /\ loadingImage => \E i \in Levels : imageFetches[<<i, "current">>] > 0
    /\ evaluation.kind = "fallback" /\ pendingEvals = {} => ~isEvaluating

C23_Witness ==
    /\ Mounted
    /\ lastGeneration = "list"
    /\ evaluation.kind = "fallback"
    /\ pendingEvals = {}
    /\ ~isEvaluating
    /\ recordings = 1

\* C24: a failed curriculum generation leaves App on the INPUT step with the
\* level list unchanged and isGenerating false, and the next start request is
\* accepted: it starts a new generation.
C24_FailedGenerationRetryable ==
    [][/\ (\E images \in BOOLEAN : GenerationResolves("rejects", images))
            => /\ step' = "INPUT"
               /\ sentenceCount' = sentenceCount
               /\ ~isGenerating'
       /\ (HandleStart /\ lastGeneration = "rejects" /\ ~generating)
            => /\ generating'
               /\ isGenerating']_vars

C24_Witness == step = "INPUT" /\ lastGeneration = "rejects" /\ generating /\ isGenerating

\* C25: handleRecordingComplete with a transcript that is empty after trimming
\* makes no critique call and leaves isEvaluating, the displayed evaluation,
\* showAnalysis and history as they are.
C25_BlankTranscriptIsNoOp ==
    [][\A t \in CompleteTranscripts :
          HandleRecordingComplete(t) /\ Trim(t) = <<>>
              => UNCHANGED <<critiqueCalls, pendingEvals, isEvaluating, evaluation,
                             showAnalysis, history>>]_vars

C25_Witness ==
    /\ blankCompletions = 2
    /\ critiqueCalls = 1
    /\ evaluation # NoResult
    /\ pendingEvals = {}
    /\ ~isEvaluating

\* C26: toggleRecording pressed while not recording, on a platform with speech
\* recognition, clears the live and the accumulated transcript, clears the
\* user-stopped flag and ends listening with isRecording true.
C26_StartEntersListening ==
    [][ToggleRecordingWithin(MaxCaptureRecordings) /\ hasRecognition /\ ~isRecording
          => /\ transcriptRef' = <<>>
             /\ fullTranscriptRef' = <<>>
             /\ ~userStoppedRef'
             /\ isRecording'
             /\ engine' = "listening"]_vars

\* C27: the three-level walk.  Jumping back from level 1 to a completed level 0
\* displays the stored result and makes no critique call; handleNext on level 2
\* completes the session; and from the moment level 2 is the current level,
\* unlockedIndex is 2 in every later state, jumps back included.
C27_ThreeLevelScenario ==
    /\ [](currentIndex = NumLevels - 1 => unlockedIndex = NumLevels - 1)
    /\ [][/\ unlockedIndex = NumLevels - 1 => unlockedIndex' = NumLevels - 1
          /\ (HandleJumpToLevel(0) /\ currentIndex = 1 /\ history[0] # NoResult)
                => /\ currentIndex' = 0
                   /\ evaluation' = history[0]
                   /\ showAnalysis'
                   /\ history' = history
                   /\ critiqueCalls' = critiqueCalls
                   /\ pendingEvals' = pendingEvals
          /\ (HandleNext /\ currentIndex = NumLevels - 1)
                => step' = "COMPLETED" /\ unlockedIndex' = NumLevels - 1]_vars

\* The walk is over: completed from level 2, every level with its own stored
\* result, one critique call per level.
C27_Witness ==
    /\ step = "COMPLETED"
    /\ currentIndex = NumLevels - 1
    /\ unlockedIndex = NumLevels - 1
    /\ critiqueCalls = NumLevels
    /\ \A i \in Levels : history[i].kind = "ok" /\ history[i].id = i + 1
    /\ evaluation = history[NumLevels - 1]

\* C28: the audio stop of the level reset is idempotent, and a level reset
\* that finds playback Idle (neither loading nor playing) changes nothing in
\* the audio state: no utterance cancelled, no source stopped, no reference
\* cleared.
C28_AudioStopOnIdleIsNoOp ==
    /\ [](AudioStop(AudioStop(AudioState)) = AudioStop(AudioState))
    /\ [][currentIndex' # currentIndex /\ ~PlaybackBusy
            => UNCHANGED <<ttsSpeaking, ttsEvents, sounding, endedPending, activeSourceRef>>]_vars

\* C29: the end event of an engine aborted by a level switch never takes the
\* auto-restart path: whenever it is handled the user-stopped flag is still
\* set, so it calls start() on no engine, whatever the user did in between.
C29_AbortedEndNeverRestarts == [][AbortedEngineEnds => userStoppedRef]_vars

\* C30: in the basic PracticeSession a displayed evaluation belongs to the
\* level on display: its target is the current level's sentence, whatever
\* recording was aborted or critique was pending when the level changed.
C30_BasicResultOnItsLevel ==
    (Mounted /\ evaluation # NoResult) => evaluation.target = sentences[currentIndex]

\* C31: when two critiques for one level are outstanding, the level's history
\* entry ends up as the result of the later recording: a stored result is
\* never replaced by the result of an earlier critique call.
C31_LaterRecordingWins ==
    [][\A i \in Levels :
          (history[i] # NoResult /\ history'[i] # NoResult) => history'[i].id >= history[i].id]_vars

\* C32: while the session is mounted, isPlaying is true whenever a stream
\* started by playAudio is sounding, and a sounding buffer source is the one
\* activeSourceRef refers to.
C32_FlagCoversSoundingStream ==
    Mounted => /\ (SoundingStreams > 0 => isPlaying)
               /\ (sounding # {} => activeSourceRef \in sounding)

\* C33: while the session is mounted the recognition engine is listening only
\* if isRecording is true.
C33_ListeningOnlyWhileRecording == Mounted /\ engine = "listening" => isRecording

\* C34: every change of the level index ends with isPlaying, isRecording,
\* isEvaluating and isAudioLoading false, no word popover open and both
\* transcript buffers empty.
C34_ResetClearsTransients ==
    [][currentIndex' # currentIndex
          => /\ ~isPlaying' /\ ~isRecording' /\ ~isEvaluating' /\ ~isAudioLoading'
             /\ activeWordIndex' = NoWord
             /\ transcriptRef' = <<>>
             /\ fullTranscriptRef' = <<>>]_vars

\* Level 1 was left for level 0 while its recording was listening: the engine's
\* end event is still to come, and the flags and buffers are clear.
C34_Witness ==
    /\ currentIndex = 0
    /\ unlockedIndex = 1
    /\ oldEnds = 1
    /\ abandoned = {2}
    /\ ~isRecording /\ ~isPlaying /\ ~isEvaluating /\ ~isAudioLoading
    /\ transcriptRef = <<>>
    /\ fullTranscriptRef = <<>>
    /\ activeWordIndex = NoWord

\* C35: while a session is mounted, 0 <= currentIndex <= unlockedIndex <
\* number of levels.
C35_IndexWithinFrontier ==
    Mounted => /\ 0 <= currentIndex
               /\ currentIndex <= unlockedIndex
               /\ unlockedIndex < sentenceCount

\* The last level is on display with its result, Next is offered.
C35_Witness ==
    /\ Mounted
    /\ currentIndex = NumLevels - 1
    /\ unlockedIndex = NumLevels - 1
    /\ evaluation # NoResult
    /\ ~isEvaluating

\* C36: every level below unlockedIndex has a history entry.
C36_UnlockedLevelsEvaluated == \A i \in Levels : i < unlockedIndex => history[i] # NoResult

\* The frontier is the last level, which has no result yet; the user is back
\* on level 0.
C36_Witness ==
    /\ Mounted
    /\ unlockedIndex = NumLevels - 1
    /\ currentIndex = 0
    /\ history[NumLevels - 1] = NoResult
    /\ \A i \in Levels : i < NumLevels - 1 => history[i] # NoResult

\* C37: once the session is torn down no playback stream is sounding and the
\* engine is not listening, and nothing starts to sound afterwards.
C37_SilentAfterTeardown ==
    /\ [](~Mounted => SoundingStreams = 0 /\ engine # "listening")
    /\ [][~Mounted => (sounding' \subseteq sounding /\ (ttsSpeaking' => ttsSpeaking))]_vars

\* C38: once a text's decoded audio is in the cache, no playAudio for that
\* text, on whatever level, calls the speech service again: the call starts a
\* buffer source at once; a speech request that resolves with null or with
\* data that cannot be decoded leaves the cache as it was, and no entry is
\* ever dropped
C38_CachedTextPlaysFromCache ==
    [][/\ \A t \in audioCacheRef : pendingPlays'[t] <= pendingPlays[t]
       /\ \A t \in audioCacheRef :
            PlayAudioStarts(t, MaxCachePlays) =>
                /\ isPlaying'
                /\ ~isAudioLoading'
                /\ activeSourceRef' \in sounding' \ sounding
       /\ \A t \in Texts, o \in SpeechOutcomes \ {"data"} :
            SpeechResolves(t, o) => audioCacheRef' = audioCacheRef
       /\ audioCacheRef \subseteq audioCacheRef']_vars

\* the shared word was fetched on level 0 and is playing from the cache on
\* level 1, with no request in flight
C38_Witness ==
    /\ currentIndex = 1
    /\ SharedWord \in audioCacheRef
    /\ sentences[1] \notin audioCacheRef
    /\ plays = 2
    /\ activeSourceRef \in sounding
    /\ isPlaying
    /\ \A t \in Texts : pendingPlays[t] = 0

\* C39: when start() throws in onend's restart branch the controller is idle
\* (isRecording false) with no critique requested, and from then on, as long
\* as the controller stays idle, recognition is not restarted
C39_RestartThrowEndsTheLoop ==
    [][/\ (isRecording /\ ~isRecording' /\ ~userStoppedRef')
            => pendingEvals' = pendingEvals
       /\ (~isRecording /\ ~isRecording' /\ ~permissionDenied) => restarts' <= restarts]_vars

\* C40: whenever the step is PRACTICE the level list is non-empty, so a
\* session is rendered: a generation that resolves with an empty list does
\* not leave the application on PRACTICE with nothing shown
C40_PracticeHasLevels ==
    step = "PRACTICE" => sentenceCount > 0 /\ Mounted

====
